---- MODULE Spec2Model ----
(***************************************************************************)
(* Model of the on-chain lending engine: LendingCore (openLoan, repay,     *)
(* healthFactor, liquidate, admin setters), CollateralVault,               *)
(* CreditScoreRegistry, PriceOracleRouter and MockPriceFeed.               *)
(*                                                                         *)
(* Every external call of the contracts is one action.  A call that        *)
(* reverts leaves the chain state as it was; the outcome of the call is    *)
(* recorded in `last`.  Amounts are fixed-point integers as in the code;   *)
(* the decimal scales (1e18, 1e12, 1e10, seconds per year) are scaled down *)
(* to small numbers so that every product stays within the checker's       *)
(* integers.  Truncating division and the order of the multiplications and *)
(* divisions are those of the code.                                        *)
(***************************************************************************)
EXTENDS Integers, Sequences, FiniteSets, TLC

(***************************************************************************)
(* Fixed-point scales of the contracts.                                    *)
(***************************************************************************)
\* 1e18: price and USD value basis (LendingCore.sol:101)
WAD == 100
\* 1e12: 6-decimal debt token to 18-decimal basis (LendingCore.sol:104)
DEBT_SCALE == 10
\* 1e10: 8-decimal feed answer to 18 decimals (PriceOracleRouter.getPrice)
FEED_SCALE == 5
\* 10000: basis points denominator (LendingCore.sol:107)
BPS == 10000
\* 365 * 86400: seconds per year (LendingCore.sol:283)
YEAR == 2
\* type(uint256).max (LendingCore.sol:190)
MAX_UINT == 1000000000

(***************************************************************************)
(* Bounds of the model.                                                    *)
(***************************************************************************)
MaxLoans == 2
MaxTime == 2
MaxCalls == 5

(***************************************************************************)
(* Accounts.  Owner deploys and owns LendingCore and CreditScoreRegistry;  *)
(* the vault is owned by LendingCore (deploy.ts transfers the ownership).  *)
(***************************************************************************)
Owner == "owner"
Users == {"u1", "u2"}
Core == "core"
Vault == "vault"
ZeroAddr == "0x0"
Holders == Users \cup {Core, Vault}

(***************************************************************************)
(* Inputs of the calls.                                                    *)
(***************************************************************************)
\* openLoan(collateralAmount, desiredDebt)
OpenLoanInputs == {<<0, 2>>, <<120, 0>>, <<66, 2>>, <<120, 3>>, <<133, 2>>}
\* repay(loanId, repayAmount): the amounts
RepayInputs == {1, 3}
\* liquidate(loanId, maxRepay): the amounts
MaxRepayInputs == {1, 9}
\* CollateralVault.deposit(token, amount): caller and amount
DepositInputs == {<<"u2", 100>>}
\* MockPriceFeed.setPrice(_price), 18 decimals
PriceInputs == {0, 17, 25}
\* setScoreHash(user, scoreHash, tier): caller, user and tier
ScoreInputs == {<<Owner, "u1", 2>>, <<Owner, "u1", 3>>, <<"u2", "u2", 2>>}
\* setTierParams(tier, ltvBps, aprBps): caller and arguments
TierParamInputs == {<<Owner, 0, 10000, 10000>>, <<Owner, 2, 10001, 10000>>,
                    <<Owner, 3, 10000, 10000>>, <<"u1", 2, 10000, 10000>>}
\* setLiquidationParams(thresholdBps, bonusBps): caller and arguments
LiquidationParamInputs == {<<Owner, 8500, 10000>>, <<"u1", 8500, 10000>>}
\* callers of pause and unpause
PauseCallers == {Owner, "u1"}

\* debtAmount and interestRate of the loan whose accrual is followed step by step
AccrualDebtInputs == {2, 3, 35, 350}
AccrualRateInputs == {600, 900, 1200, 10000}

\* balances minted by setup-local-demo.ts (scaled)
InitCollateral == 260
InitDebt == 2
InitPool == 5

VARIABLES
  loans,                    \* LendingCore.loans : id -> Loan
  loanCounter,              \* LendingCore.loanCounter
  tierParams,               \* LendingCore.tierParams : tier -> TierParams
  liquidationThresholdBps,  \* LendingCore.liquidationThresholdBps
  liquidationBonusBps,      \* LendingCore.liquidationBonusBps
  paused,                   \* Pausable._paused of LendingCore
  balances,                 \* CollateralVault.balances[user][collateralToken]
  collateralBal,            \* collateral token balanceOf
  debtBal,                  \* debt token balanceOf
  userScores,               \* CreditScoreRegistry.userScores
  feedPrice,                \* MockPriceFeed.price (8-decimal answer)
  now,                      \* block.timestamp
  priceSetAt,               \* history: block.timestamp of the feed's last answer
  posted,                   \* history: collateral posted at origination, per loan
  released,                 \* history: collateral released by the vault, per loan
  entered,                  \* ReentrancyGuard: _status = ENTERED
  stack,                    \* the calls of LendingCore in progress, innermost last
  last,                     \* history: the last call and its outcome
  ncalls                    \* history: number of calls that changed the state

vars == <<loans, loanCounter, tierParams, liquidationThresholdBps,
          liquidationBonusBps, paused, balances, collateralBal, debtBal,
          userScores, feedPrice, now, priceSetAt, posted, released, entered,
          stack, last, ncalls>>

chain == <<loans, loanCounter, tierParams, liquidationThresholdBps,
           liquidationBonusBps, paused, balances, collateralBal, debtBal,
           userScores, feedPrice, priceSetAt, posted, released>>

LoanIds == 0 .. (MaxLoans - 1)

\* the zero value of a Loan in the `loans` mapping
ZeroLoan ==
  [borrower |-> ZeroAddr, collateralToken |-> ZeroAddr, debtToken |-> ZeroAddr,
   collateralAmount |-> 0, debtAmount |-> 0, interestRate |-> 0,
   createdAt |-> 0, lastAccruedAt |-> 0, active |-> FALSE]

\* the zero value of a UserScore in the `userScores` mapping
ZeroScore == [scoreHash |-> 0, tier |-> 0]

Call(op, caller, id, a, b, err, paid, out) ==
  [op |-> op, caller |-> caller, id |-> id, a |-> a, b |-> b,
   ok |-> (err = ""), err |-> err, paid |-> paid, out |-> out]

\* the view functions that are called from outside
Views == {"healthFactor"}

\* A call is recorded; it is a transaction of its own, which runs when no other
\* call is in progress.  A call that changed the state uses up one unit of the
\* budget.  A reverted call and a view call change nothing on chain, so a
\* behaviour is followed up to its first such call: every chain state, and every
\* reverted call and view call in every chain state, is still reached.
Record(call) ==
  /\ stack = <<>>
  /\ UNCHANGED <<entered, stack>>
  /\ ncalls < MaxCalls
  /\ last.ok /\ last.op \notin Views
  /\ last' = call
  /\ ncalls' = IF call.ok /\ call.op \notin Views THEN ncalls + 1 ELSE ncalls

Min(x, y) == IF x < y THEN x ELSE y

(***************************************************************************)
(* CreditScoreRegistry                                                     *)
(***************************************************************************)
getTier(user) == userScores[user].tier

\* a score has been committed for the user (setScoreHash stores a non-zero hash)
HasScore(user) == userScores[user].scoreHash # 0

setScoreHash(caller, user, tier) ==
  LET err == IF caller # Owner THEN "OwnableUnauthorizedAccount"
             ELSE IF ~(tier <= 2) THEN "Invalid tier"
             ELSE ""
  IN /\ userScores' = IF err = "" THEN [userScores EXCEPT ![user] = [scoreHash |-> 1, tier |-> tier]]
                      ELSE userScores
     /\ Record(Call("setScoreHash", caller, 0, tier, 0, err, 0, 0))
     /\ UNCHANGED <<loans, loanCounter, tierParams, liquidationThresholdBps,
                    liquidationBonusBps, paused, balances, collateralBal, debtBal,
                    feedPrice, priceSetAt, now, posted, released>>

(***************************************************************************)
(* MockPriceFeed and PriceOracleRouter                                     *)
(***************************************************************************)
setPrice(p) ==
  /\ feedPrice' = p \div FEED_SCALE
  /\ priceSetAt' = now
  /\ Record(Call("setPrice", ZeroAddr, 0, p, 0, "", 0, 0))
  /\ UNCHANGED <<loans, loanCounter, tierParams, liquidationThresholdBps,
                 liquidationBonusBps, paused, balances, collateralBal, debtBal,
                 userScores, now, posted, released>>

\* PriceOracleRouter.getPrice reverts unless the answer is positive
PriceValid == feedPrice > 0

getPrice == feedPrice * FEED_SCALE

(***************************************************************************)
(* LendingCore: pure computations                                          *)
(***************************************************************************)
WhenNotPausedIgnored(isPaused) == TRUE

\* the whenNotPaused modifier of openLoan, repay and liquidate
WhenNotPaused(isPaused) == ~isPaused

CollateralValue(collateralAmount, price) == (collateralAmount * price) \div WAD

MaxDebtLtvAsPercent(collateralValue, ltvBps) == (collateralValue * ltvBps) \div 100

\* maxDebt of openLoan (line 107)
MaxDebt(collateralValue, ltvBps) == (collateralValue * ltvBps) \div BPS

LtvOkStrict(desiredDebt18, maxDebt) == desiredDebt18 < maxDebt

LtvOk(desiredDebt18, maxDebt) == desiredDebt18 <= maxDebt

InterestRoundedPerSecond(debtAmount, interestRate, timeElapsed) ==
  ((debtAmount * interestRate) \div (YEAR * BPS)) * timeElapsed

\* interest of _accrueInterest and _calculateDebtWithInterest (lines 283, 297)
Interest(debtAmount, interestRate, timeElapsed) ==
  (debtAmount * interestRate * timeElapsed) \div (YEAR * BPS)

calculateDebtStored(loan, t) == loan.debtAmount

\* _calculateDebtWithInterest(loan) at block.timestamp = t
calculateDebtWithInterest(loan, t) ==
  IF loan.debtAmount = 0 THEN 0
  ELSE IF t - loan.lastAccruedAt = 0 THEN loan.debtAmount
  ELSE loan.debtAmount + Interest(loan.debtAmount, loan.interestRate, t - loan.lastAccruedAt)

accrueInterestStampAhead(loan, t) ==
  IF loan.debtAmount = 0 THEN loan
  ELSE IF t - loan.lastAccruedAt = 0 THEN loan
  ELSE [loan EXCEPT
          !.debtAmount = @ + Interest(loan.debtAmount, loan.interestRate, t - loan.lastAccruedAt),
          !.lastAccruedAt = t + (t - loan.lastAccruedAt)]

accrueInterestNoStamp(loan, t) ==
  IF loan.debtAmount = 0 THEN loan
  ELSE IF t - loan.lastAccruedAt = 0 THEN loan
  ELSE [loan EXCEPT
          !.debtAmount = @ + Interest(loan.debtAmount, loan.interestRate, t - loan.lastAccruedAt)]

\* _accrueInterest(loanId) at block.timestamp = t: the loan record afterwards
accrueInterest(loan, t) ==
  IF loan.debtAmount = 0 THEN loan
  ELSE IF t - loan.lastAccruedAt = 0 THEN loan
  ELSE [loan EXCEPT
          !.debtAmount = @ + Interest(loan.debtAmount, loan.interestRate, t - loan.lastAccruedAt),
          !.lastAccruedAt = t]

healthFactorStoredDebt(loan, t, price) ==
  LET collateralValue == CollateralValue(loan.collateralAmount, price)
      debtValue == loan.debtAmount * DEBT_SCALE
  IN IF debtValue = 0 THEN MAX_UINT
     ELSE (collateralValue * WAD) \div debtValue

\* healthFactor(loanId) for an active loan and a valid price
healthFactor(loan, t, price) ==
  LET currentDebt == calculateDebtWithInterest(loan, t)
      collateralValue == CollateralValue(loan.collateralAmount, price)
      debtValue == currentDebt * DEBT_SCALE
  IN IF debtValue = 0 THEN MAX_UINT
     ELSE (collateralValue * WAD) \div debtValue

LoanActiveIfCreated(loan) == loan.borrower # ZeroAddr

\* require(loan.active, "Loan not active") of repay, healthFactor and liquidate
\* (lines 146, 178, 203)
LoanActive(loan) == loan.active

\* healthFactor(loanId) called from outside: a view, nothing is written
healthFactorCall(caller, loanId) ==
  LET loan == loans[loanId]
      err == IF ~LoanActive(loan) THEN "Loan not active"
             ELSE IF ~PriceValid THEN "Invalid price"
             ELSE ""
      out == IF err = "" THEN healthFactor(loan, now, getPrice) ELSE 0
  IN /\ Record(Call("healthFactor", caller, loanId, 0, 0, err, 0, out))
     /\ UNCHANGED <<chain, now>>

(***************************************************************************)
(* LendingCore.openLoan                                                    *)
(***************************************************************************)
LiquidityOkNonEmpty(pool, desiredDebt) == pool > 0

\* the pool holds the amount to disburse (line 116-119)
LiquidityOk(pool, desiredDebt) == pool >= desiredDebt

LoanRateLtv(params) == params.ltvBps

\* the interest rate written into the loan (line 129)
LoanRate(params) == params.aprBps

NextLoanCounterStuck(counter) == counter

\* loanCounter after `loanId = loanCounter++` (line 123)
NextLoanCounter(counter) == counter + 1

openLoanErr(caller, collateralAmount, desiredDebt) ==
  IF ~WhenNotPaused(paused) THEN "EnforcedPause"
  ELSE IF ~(collateralAmount > 0) THEN "Collateral must be > 0"
  ELSE IF ~(desiredDebt > 0) THEN "Debt must be > 0"
  ELSE IF ~(getTier(caller) <= 2) THEN "No credit score set"
  ELSE IF ~PriceValid THEN "Invalid price"
  ELSE IF ~LtvOk(desiredDebt * DEBT_SCALE,
                 MaxDebt(CollateralValue(collateralAmount, getPrice),
                         tierParams[getTier(caller)].ltvBps))
       THEN "Exceeds LTV limit"
  ELSE IF collateralBal[caller] < collateralAmount THEN "ERC20InsufficientBalance"
  ELSE IF ~LiquidityOk(debtBal[Core], desiredDebt) THEN "Insufficient liquidity"
  ELSE ""

openLoan(caller, collateralAmount, desiredDebt) ==
  LET err == openLoanErr(caller, collateralAmount, desiredDebt)
      loanId == loanCounter
  IN /\ loanCounter < MaxLoans
     /\ IF err = ""
        THEN /\ collateralBal' = [collateralBal EXCEPT ![caller] = @ - collateralAmount,
                                                       ![Vault] = @ + collateralAmount]
             /\ balances' = [balances EXCEPT ![caller] = @ + collateralAmount]
             /\ debtBal' = [debtBal EXCEPT ![Core] = @ - desiredDebt,
                                           ![caller] = @ + desiredDebt]
             /\ loanCounter' = NextLoanCounter(loanCounter)
             /\ loans' = [loans EXCEPT ![loanId] =
                            [borrower |-> caller, collateralToken |-> "WMATIC",
                             debtToken |-> "USDC",
                             collateralAmount |-> collateralAmount,
                             debtAmount |-> desiredDebt,
                             interestRate |-> LoanRate(tierParams[getTier(caller)]),
                             createdAt |-> now, lastAccruedAt |-> now,
                             active |-> TRUE]]
             /\ posted' = [posted EXCEPT ![loanId] = collateralAmount]
             /\ UNCHANGED released
        ELSE UNCHANGED <<loans, loanCounter, balances, collateralBal, debtBal,
                         posted, released>>
     /\ Record(Call("openLoan", caller, loanId, collateralAmount, desiredDebt, err, 0, 0))
     /\ UNCHANGED <<tierParams, liquidationThresholdBps, liquidationBonusBps,
                    paused, userScores, feedPrice, priceSetAt, now>>

(***************************************************************************)
(* CollateralVault                                                         *)
(***************************************************************************)
\* CollateralVault.deposit(token, amount), called by a user directly
deposit(caller, amount) ==
  LET err == IF collateralBal[caller] < amount THEN "ERC20InsufficientBalance" ELSE ""
  IN /\ IF err = ""
        THEN /\ collateralBal' = [collateralBal EXCEPT ![caller] = @ - amount,
                                                       ![Vault] = @ + amount]
             /\ balances' = [balances EXCEPT ![caller] = @ + amount]
        ELSE UNCHANGED <<collateralBal, balances>>
     /\ Record(Call("deposit", caller, 0, amount, 0, err, 0, 0))
     /\ UNCHANGED <<loans, loanCounter, tierParams, liquidationThresholdBps,
                    liquidationBonusBps, paused, debtBal, userScores, feedPrice, priceSetAt,
                    now, posted, released>>

\* CollateralVault.withdraw(user, token, amount) called by LendingCore: the
\* require on the user's recorded balance and the token transfer out
withdrawOk(user, amount) == balances[user] >= amount /\ collateralBal[Vault] >= amount

(***************************************************************************)
(* LendingCore.repay                                                       *)
(***************************************************************************)
\* remainingDebt of repay (line 158)
RemainingDebt(currentDebt, repayAmount) == currentDebt - repayAmount

RepayReleaseWrongField(loan) == loan.debtAmount

\* the amount repay withdraws from the vault when the debt is cleared (line 163)
RepayRelease(loan) == loan.collateralAmount

IsBorrowerAnyone(loan, caller) == TRUE

\* only the borrower of the loan repays it (line 147)
IsBorrower(loan, caller) == loan.borrower = caller

repayErr(caller, loanId, repayAmount) ==
  LET loan == loans[loanId]
      accrued == accrueInterest(loan, now)
      currentDebt == accrued.debtAmount
  IN IF ~WhenNotPaused(paused) THEN "EnforcedPause"
     ELSE IF ~LoanActive(loan) THEN "Loan not active"
     ELSE IF ~IsBorrower(loan, caller) THEN "Not borrower"
     ELSE IF ~(repayAmount <= currentDebt) THEN "Repay exceeds debt"
     ELSE IF debtBal[caller] < repayAmount THEN "ERC20InsufficientBalance"
     ELSE IF RemainingDebt(currentDebt, repayAmount) = 0
             /\ ~withdrawOk(loan.borrower, RepayRelease(loan))
          THEN "Insufficient balance"
     ELSE ""

repay(caller, loanId, repayAmount) ==
  LET loan == loans[loanId]
      accrued == accrueInterest(loan, now)
      currentDebt == accrued.debtAmount
      remainingDebt == RemainingDebt(currentDebt, repayAmount)
      err == repayErr(caller, loanId, repayAmount)
      out == IF err = "" /\ remainingDebt = 0 THEN RepayRelease(loan) ELSE 0
  IN /\ IF err = ""
        THEN /\ debtBal' = [debtBal EXCEPT ![caller] = @ - repayAmount,
                                           ![Core] = @ + repayAmount]
             /\ IF remainingDebt = 0
                THEN /\ loans' = [loans EXCEPT ![loanId] = [accrued EXCEPT !.active = FALSE]]
                     /\ balances' = [balances EXCEPT ![loan.borrower] = @ - out]
                     /\ collateralBal' = [collateralBal EXCEPT ![Vault] = @ - out,
                                                               ![loan.borrower] = @ + out]
                     /\ released' = [released EXCEPT ![loanId] = @ + out]
                ELSE /\ loans' = [loans EXCEPT ![loanId] =
                                    [accrued EXCEPT !.debtAmount = remainingDebt]]
                     /\ UNCHANGED <<balances, collateralBal, released>>
        ELSE UNCHANGED <<loans, balances, collateralBal, debtBal, released>>
     /\ Record(Call("repay", caller, loanId, repayAmount, 0, err,
                     IF err = "" THEN repayAmount ELSE 0, out))
     /\ UNCHANGED <<loanCounter, tierParams, liquidationThresholdBps,
                    liquidationBonusBps, paused, userScores, feedPrice, priceSetAt, now, posted>>

(***************************************************************************)
(* LendingCore.liquidate                                                   *)
(***************************************************************************)
HealthFactorBelowOneOrEqual(hf) == hf <= WAD

\* the liquidation gate (line 206)
HealthFactorBelowOne(hf) == hf < WAD

SeizedCollateralNoBonus(repayAmount, bonusBps, price) ==
  (repayAmount * DEBT_SCALE * WAD) \div price

\* bonus, seizedAmount and seizedCollateral of liquidate (lines 218-224)
SeizedCollateral(repayAmount, bonusBps, price) ==
  LET bonus == (repayAmount * bonusBps) \div BPS
      seizedAmount == repayAmount + bonus
  IN (seizedAmount * DEBT_SCALE * WAD) \div price

ClosesOnZeroDebtNever(debtAmount) == FALSE

\* liquidate deactivates the loan when its debt reaches zero (lines 229-231)
ClosesOnZeroDebt(debtAmount) == debtAmount = 0

liquidateErr(caller, loanId, maxRepay) ==
  LET loan == loans[loanId]
      accrued == accrueInterest(loan, now)
      currentDebt == accrued.debtAmount
      repayAmount == Min(maxRepay, currentDebt)
  IN IF ~WhenNotPaused(paused) THEN "EnforcedPause"
     ELSE IF ~LoanActive(loan) THEN "Loan not active"
     ELSE IF ~PriceValid THEN "Invalid price"
     ELSE IF ~HealthFactorBelowOne(healthFactor(loan, now, getPrice)) THEN "Health factor >= 1"
     ELSE IF debtBal[caller] < repayAmount THEN "ERC20InsufficientBalance"
     ELSE IF ~(SeizedCollateral(repayAmount, liquidationBonusBps, getPrice)
                 <= loan.collateralAmount)
          THEN "Seizure exceeds collateral"
     ELSE IF ~withdrawOk(caller, SeizedCollateral(repayAmount, liquidationBonusBps, getPrice))
          THEN "Insufficient balance"
     ELSE ""

liquidate(caller, loanId, maxRepay) ==
  LET loan == loans[loanId]
      accrued == accrueInterest(loan, now)
      currentDebt == accrued.debtAmount
      repayAmount == Min(maxRepay, currentDebt)
      err == liquidateErr(caller, loanId, maxRepay)
      seizedCollateral == IF err = ""
                          THEN SeizedCollateral(repayAmount, liquidationBonusBps, getPrice)
                          ELSE 0
  IN /\ IF err = ""
        THEN /\ debtBal' = [debtBal EXCEPT ![caller] = @ - repayAmount,
                                           ![Core] = @ + repayAmount]
             /\ loans' = [loans EXCEPT ![loanId] =
                            [accrued EXCEPT
                               !.debtAmount = currentDebt - repayAmount,
                               !.active = ~ClosesOnZeroDebt(currentDebt - repayAmount)]]
             /\ balances' = [balances EXCEPT ![caller] = @ - seizedCollateral]
             /\ collateralBal' = [collateralBal EXCEPT ![Vault] = @ - seizedCollateral,
                                                       ![caller] = @ + seizedCollateral]
             /\ released' = [released EXCEPT ![loanId] = @ + seizedCollateral]
        ELSE UNCHANGED <<loans, balances, collateralBal, debtBal, released>>
     /\ Record(Call("liquidate", caller, loanId, maxRepay, 0, err,
                     IF err = "" THEN repayAmount ELSE 0, seizedCollateral))
     /\ UNCHANGED <<loanCounter, tierParams, liquidationThresholdBps,
                    liquidationBonusBps, paused, userScores, feedPrice, priceSetAt, now, posted>>

(***************************************************************************)
(* LendingCore: owner-only setters                                         *)
(***************************************************************************)
LtvUnchecked(ltvBps) == TRUE

\* require(ltvBps <= 10000, "LTV > 100%") of setTierParams (line 244)
LtvWithinLimit(ltvBps) == ltvBps <= 10000

setTierParams(caller, tier, ltvBps, aprBps) ==
  LET err == IF caller # Owner THEN "OwnableUnauthorizedAccount"
             ELSE IF ~(tier <= 2) THEN "Invalid tier"
             ELSE IF ~LtvWithinLimit(ltvBps) THEN "LTV > 100%"
             ELSE ""
  IN /\ tierParams' = IF err = ""
                      THEN [tierParams EXCEPT ![tier] = [ltvBps |-> ltvBps, aprBps |-> aprBps]]
                      ELSE tierParams
     /\ Record(Call("setTierParams", caller, tier, ltvBps, aprBps, err, 0, 0))
     /\ UNCHANGED <<loans, loanCounter, liquidationThresholdBps, liquidationBonusBps,
                    paused, balances, collateralBal, debtBal, userScores, feedPrice, priceSetAt,
                    now, posted, released>>

setLiquidationParams(caller, thresholdBps, bonusBps) ==
  LET err == IF caller # Owner THEN "OwnableUnauthorizedAccount" ELSE ""
  IN /\ IF err = ""
        THEN /\ liquidationThresholdBps' = thresholdBps
             /\ liquidationBonusBps' = bonusBps
        ELSE UNCHANGED <<liquidationThresholdBps, liquidationBonusBps>>
     /\ Record(Call("setLiquidationParams", caller, 0, thresholdBps, bonusBps, err, 0, 0))
     /\ UNCHANGED <<loans, loanCounter, tierParams, paused, balances, collateralBal,
                    debtBal, userScores, feedPrice, priceSetAt, now, posted, released>>

pause(caller) ==
  LET err == IF caller # Owner THEN "OwnableUnauthorizedAccount"
             ELSE IF paused THEN "EnforcedPause"
             ELSE ""
  IN /\ paused' = IF err = "" THEN TRUE ELSE paused
     /\ Record(Call("pause", caller, 0, 0, 0, err, 0, 0))
     /\ UNCHANGED <<loans, loanCounter, tierParams, liquidationThresholdBps,
                    liquidationBonusBps, balances, collateralBal, debtBal,
                    userScores, feedPrice, priceSetAt, now, posted, released>>

unpause(caller) ==
  LET err == IF caller # Owner THEN "OwnableUnauthorizedAccount"
             ELSE IF ~paused THEN "ExpectedPause"
             ELSE ""
  IN /\ paused' = IF err = "" THEN FALSE ELSE paused
     /\ Record(Call("unpause", caller, 0, 0, 0, err, 0, 0))
     /\ UNCHANGED <<loans, loanCounter, tierParams, liquidationThresholdBps,
                    liquidationBonusBps, balances, collateralBal, debtBal,
                    userScores, feedPrice, priceSetAt, now, posted, released>>

(***************************************************************************)
(* The block timestamp advances between calls.                             *)
(***************************************************************************)
Tick ==
  /\ now < MaxTime
  /\ now' = now + 1
  /\ Record(Call("tick", ZeroAddr, 0, 0, 0, "", 0, 0))
  /\ UNCHANGED chain

Init ==
  /\ loans = [i \in LoanIds |-> ZeroLoan]
  /\ loanCounter = 0
  /\ tierParams = [t \in 0 .. 2 |->
                     IF t = 2 THEN [ltvBps |-> 7000, aprBps |-> 600]
                     ELSE IF t = 1 THEN [ltvBps |-> 6000, aprBps |-> 900]
                     ELSE [ltvBps |-> 5000, aprBps |-> 1200]]
  /\ liquidationThresholdBps = 8500
  /\ liquidationBonusBps = 500
  /\ paused = FALSE
  /\ balances = [u \in Users |-> 0]
  /\ collateralBal = [h \in Holders |-> IF h \in Users THEN InitCollateral ELSE 0]
  /\ debtBal = [h \in Holders |-> IF h \in Users THEN InitDebt
                                  ELSE IF h = Core THEN InitPool ELSE 0]
  /\ userScores = [u \in Users |-> ZeroScore]
  /\ feedPrice = 10
  /\ priceSetAt = 0
  /\ now = 0
  /\ posted = [i \in LoanIds |-> 0]
  /\ released = [i \in LoanIds |-> 0]
  /\ entered = FALSE
  /\ stack = <<>>
  /\ last = Call("constructor", Owner, 0, 0, 0, "", 0, 0)
  /\ ncalls = 0

Next ==
  \/ \E u \in Users, x \in OpenLoanInputs : openLoan(u, x[1], x[2])
  \/ \E u \in Users, i \in LoanIds, a \in RepayInputs : repay(u, i, a)
  \/ \E u \in Users, i \in LoanIds, a \in MaxRepayInputs : liquidate(u, i, a)
  \/ \E i \in LoanIds : healthFactorCall("u1", i)
  \/ \E x \in DepositInputs : deposit(x[1], x[2])
  \/ \E x \in ScoreInputs : setScoreHash(x[1], x[2], x[3])
  \/ \E p \in PriceInputs : setPrice(p)
  \/ \E x \in TierParamInputs : setTierParams(x[1], x[2], x[3], x[4])
  \/ \E x \in LiquidationParamInputs : setLiquidationParams(x[1], x[2], x[3])
  \/ \E c \in PauseCallers : pause(c)
  \/ \E c \in PauseCallers : unpause(c)
  \/ Tick

Spec == Init /\ [][Next]_vars

(***************************************************************************)
(* _accrueInterest on its own: one loan, written as openLoan writes it at  *)
(* timestamp 0, is accrued at the timestamps the clock reaches.            *)
(***************************************************************************)
AccrualInit ==
  \E d \in AccrualDebtInputs, r \in AccrualRateInputs :
    /\ loans = [i \in LoanIds |->
                  IF i = 0
                  THEN [borrower |-> "u1", collateralToken |-> "WMATIC",
                        debtToken |-> "USDC", collateralAmount |-> 40 * d,
                        debtAmount |-> d, interestRate |-> r,
                        createdAt |-> 0, lastAccruedAt |-> 0, active |-> TRUE]
                  ELSE ZeroLoan]
    /\ loanCounter = 1
    /\ tierParams = [t \in 0 .. 2 |->
                       IF t = 2 THEN [ltvBps |-> 7000, aprBps |-> 600]
                       ELSE IF t = 1 THEN [ltvBps |-> 6000, aprBps |-> 900]
                       ELSE [ltvBps |-> 5000, aprBps |-> 1200]]
    /\ liquidationThresholdBps = 8500
    /\ liquidationBonusBps = 500
    /\ paused = FALSE
    /\ balances = [u \in Users |-> IF u = "u1" THEN 40 * d ELSE 0]
    /\ collateralBal = [h \in Holders |-> IF h = Vault THEN 40 * d ELSE 0]
    /\ debtBal = [h \in Holders |-> IF h = "u1" THEN d ELSE 0]
    /\ userScores = [u \in Users |-> ZeroScore]
    /\ feedPrice = 10
    /\ now = 0
    /\ priceSetAt = 0
    /\ posted = [i \in LoanIds |-> IF i = 0 THEN 40 * d ELSE 0]
    /\ released = [i \in LoanIds |-> 0]
    /\ entered = FALSE
    /\ stack = <<>>
    /\ last = Call("openLoan", "u1", 0, 40 * d, d, "", 0, 0)
    /\ ncalls = 0

\* _accrueInterest(0) at the current timestamp; the call records the debt
\* before, the time elapsed and the debt after
AccrueStep ==
  LET loan == loans[0]
      accrued == accrueInterest(loan, now)
  IN /\ loans' = [loans EXCEPT ![0] = accrued]
     /\ Record(Call("accrue", Core, 0, loan.debtAmount, now - loan.lastAccruedAt,
                     "", 0, accrued.debtAmount))
     /\ UNCHANGED <<loanCounter, tierParams, liquidationThresholdBps,
                    liquidationBonusBps, paused, balances, collateralBal, debtBal,
                    userScores, feedPrice, now, priceSetAt, posted, released>>

AccrualNext == AccrueStep \/ healthFactorCall("u1", 0) \/ Tick

AccrualSpec == AccrualInit /\ [][AccrualNext]_vars

(***************************************************************************)
(* openLoan, repay and liquidate statement by statement.  A call enters    *)
(* through the nonReentrant modifier and runs its statements in the order  *)
(* of the code; while control is in a token or in the vault, the callee    *)
(* may call back into LendingCore.  A revert restores the state the call   *)
(* started from.                                                           *)
(***************************************************************************)
NonReentrantOff(status) == TRUE

\* the check of the nonReentrant modifier: _status is not ENTERED
NonReentrant(status) == ~status

\* the state that openLoan, repay and liquidate write
Ledger ==
  [loans |-> loans, loanCounter |-> loanCounter, balances |-> balances,
   collateralBal |-> collateralBal, debtBal |-> debtBal,
   posted |-> posted, released |-> released]

\* the statements during which control is in a token or in the vault
CollaboratorSteps == {"transferIn", "depositFor", "transferOut", "withdraw"}

\* the calls a token or the vault makes back into LendingCore while it has
\* control: operation, caller, loanId and the two arguments
ReenterInputs ==
  {<<"repay", "u1", 0, 1, 0>>, <<"liquidate", "u2", 0, 1, 0>>,
   <<"openLoan", "u2", 0, 66, 2>>}

\* the call in progress whose statements are running
Top == stack[Len(stack)]

\* the outcome of the call when it runs as one transaction
ExpectedErr(op, caller, id, a, b) ==
  IF op = "openLoan" THEN openLoanErr(caller, a, b)
  ELSE IF op = "repay" THEN repayErr(caller, id, a)
  ELSE liquidateErr(caller, id, a)

\* a call that has passed the modifier: its arguments, the statement it is
\* at, its local variables x and y, and the state to restore on a revert
Frame(op, caller, id, a, b) ==
  [op |-> op, caller |-> caller, id |-> id, a |-> a, b |-> b,
   pc |-> "checks", x |-> 0, y |-> 0,
   snap |-> Ledger, wasEntered |-> entered,
   expect |-> ExpectedErr(op, caller, id, a, b)]

\* nonReentrant: the call is rejected when a call is in progress, otherwise
\* _status becomes ENTERED and the body starts
Enter(op, caller, id, a, b) ==
  /\ IF NonReentrant(entered)
     THEN /\ stack' = Append(stack, Frame(op, caller, id, a, b))
          /\ entered' = TRUE
          /\ UNCHANGED last
     ELSE /\ last' = Call(op, caller, id, a, b, "ReentrancyGuardReentrantCall", 0, 0)
          /\ UNCHANGED <<entered, stack>>
  /\ UNCHANGED <<chain, now, ncalls>>

\* a transaction calls openLoan, repay or liquidate
Begin(op, caller, id, a, b) ==
  /\ stack = <<>>
  /\ ncalls < MaxCalls
  /\ last.ok
  /\ op = "openLoan" => loanCounter < MaxLoans
  /\ Enter(op, caller, id, a, b)

\* the token or the vault that has control calls back into LendingCore
Reenter(op, caller, id, a, b) ==
  /\ stack # <<>>
  /\ Top.pc \in CollaboratorSteps
  /\ op = "openLoan" => loanCounter < MaxLoans
  /\ Enter(op, caller, id, a, b)

Goto(pc, x, y, led) ==
  [kind |-> "goto", pc |-> pc, x |-> x, y |-> y, led |-> led,
   err |-> "", paid |-> 0, out |-> 0]

RevertWith(err) ==
  [kind |-> "revert", pc |-> "", x |-> 0, y |-> 0, led |-> Ledger,
   err |-> err, paid |-> 0, out |-> 0]

ReturnWith(led, paid, out) ==
  [kind |-> "return", pc |-> "", x |-> 0, y |-> 0, led |-> led,
   err |-> "", paid |-> paid, out |-> out]

\* the statement of openLoan the call f is at (lines 91-136)
openLoanStep(f) ==
  LET u == f.caller
      c == f.a
      d == f.b
      loanId == loanCounter
      checks == openLoanErr(u, c, d)
  IN CASE f.pc = "checks" ->
            IF checks \in {"EnforcedPause", "Collateral must be > 0", "Debt must be > 0",
                           "No credit score set", "Invalid price", "Exceeds LTV limit"}
            THEN RevertWith(checks)
            ELSE Goto("transferIn", 0, 0, Ledger)
       [] f.pc = "transferIn" ->
            IF collateralBal[u] < c THEN RevertWith("ERC20InsufficientBalance")
            ELSE Goto("depositFor", 0, 0,
                      [Ledger EXCEPT !.collateralBal =
                         [collateralBal EXCEPT ![u] = @ - c, ![Vault] = @ + c]])
       [] f.pc = "depositFor" ->
            IF ~(collateralBal[Vault] >= c) THEN RevertWith("Insufficient balance in vault")
            ELSE Goto("liquidity", 0, 0,
                      [Ledger EXCEPT !.balances = [balances EXCEPT ![u] = @ + c]])
       [] f.pc = "liquidity" ->
            IF ~LiquidityOk(debtBal[Core], d) THEN RevertWith("Insufficient liquidity")
            ELSE Goto("transferOut", 0, 0, Ledger)
       [] f.pc = "transferOut" ->
            Goto("write", 0, 0,
                 [Ledger EXCEPT !.debtBal = [debtBal EXCEPT ![Core] = @ - d, ![u] = @ + d]])
       [] OTHER ->
            ReturnWith(
              [Ledger EXCEPT
                 !.loanCounter = NextLoanCounter(loanCounter),
                 !.loans = [loans EXCEPT ![loanId] =
                              [borrower |-> u, collateralToken |-> "WMATIC",
                               debtToken |-> "USDC", collateralAmount |-> c,
                               debtAmount |-> d,
                               interestRate |-> LoanRate(tierParams[getTier(u)]),
                               createdAt |-> now, lastAccruedAt |-> now,
                               active |-> TRUE]],
                 !.posted = [posted EXCEPT ![loanId] = c]],
              0, 0)

\* the statement of repay the call f is at (lines 145-168)
repayStep(f) ==
  LET loan == loans[f.id]
      checks == repayErr(f.caller, f.id, f.a)
  IN CASE f.pc = "checks" ->
            IF checks \in {"EnforcedPause", "Loan not active", "Not borrower"}
            THEN RevertWith(checks)
            ELSE Goto("accrue", 0, 0, Ledger)
       [] f.pc = "accrue" ->
            Goto("bound", 0, 0,
                 [Ledger EXCEPT !.loans = [loans EXCEPT ![f.id] = accrueInterest(loan, now)]])
       [] f.pc = "bound" ->
            IF ~(f.a <= loan.debtAmount) THEN RevertWith("Repay exceeds debt")
            ELSE Goto("transferIn", 0, 0, Ledger)
       [] f.pc = "transferIn" ->
            IF debtBal[f.caller] < f.a THEN RevertWith("ERC20InsufficientBalance")
            ELSE Goto("settle", 0, 0,
                      [Ledger EXCEPT !.debtBal =
                         [debtBal EXCEPT ![f.caller] = @ - f.a, ![Core] = @ + f.a]])
       [] f.pc = "settle" ->
            IF RemainingDebt(loan.debtAmount, f.a) = 0
            THEN Goto("withdraw", 0, 0,
                      [Ledger EXCEPT !.loans = [loans EXCEPT ![f.id].active = FALSE]])
            ELSE ReturnWith(
                   [Ledger EXCEPT !.loans =
                      [loans EXCEPT ![f.id].debtAmount = RemainingDebt(loan.debtAmount, f.a)]],
                   f.a, 0)
       [] OTHER ->
            IF ~withdrawOk(loan.borrower, RepayRelease(loan))
            THEN RevertWith("Insufficient balance")
            ELSE ReturnWith(
                   [Ledger EXCEPT
                      !.balances = [balances EXCEPT ![loan.borrower] = @ - RepayRelease(loan)],
                      !.collateralBal = [collateralBal EXCEPT
                                           ![Vault] = @ - RepayRelease(loan),
                                           ![loan.borrower] = @ + RepayRelease(loan)],
                      !.released = [released EXCEPT ![f.id] = @ + RepayRelease(loan)]],
                   f.a, RepayRelease(loan))

\* the statement of liquidate the call f is at (lines 202-236); x is
\* repayAmount and y is seizedCollateral
liquidateStep(f) ==
  LET loan == loans[f.id]
      checks == liquidateErr(f.caller, f.id, f.a)
      repayAmount == Min(f.a, loan.debtAmount)
      seizedCollateral == SeizedCollateral(f.x, liquidationBonusBps, getPrice)
  IN CASE f.pc = "checks" ->
            IF checks \in {"EnforcedPause", "Loan not active", "Invalid price",
                           "Health factor >= 1"}
            THEN RevertWith(checks)
            ELSE Goto("accrue", 0, 0, Ledger)
       [] f.pc = "accrue" ->
            Goto("transferIn", 0, 0,
                 [Ledger EXCEPT !.loans = [loans EXCEPT ![f.id] = accrueInterest(loan, now)]])
       [] f.pc = "transferIn" ->
            IF debtBal[f.caller] < repayAmount THEN RevertWith("ERC20InsufficientBalance")
            ELSE Goto("seize", repayAmount, 0,
                      [Ledger EXCEPT !.debtBal =
                         [debtBal EXCEPT ![f.caller] = @ - repayAmount,
                                         ![Core] = @ + repayAmount]])
       [] f.pc = "seize" ->
            IF ~(seizedCollateral <= loan.collateralAmount)
            THEN RevertWith("Seizure exceeds collateral")
            ELSE Goto("withdraw", f.x, seizedCollateral,
                      [Ledger EXCEPT !.loans =
                         [loans EXCEPT
                            ![f.id].debtAmount = loan.debtAmount - f.x,
                            ![f.id].active = ~ClosesOnZeroDebt(loan.debtAmount - f.x)]])
       [] OTHER ->
            IF ~withdrawOk(f.caller, f.y) THEN RevertWith("Insufficient balance")
            ELSE ReturnWith(
                   [Ledger EXCEPT
                      !.balances = [balances EXCEPT ![f.caller] = @ - f.y],
                      !.collateralBal = [collateralBal EXCEPT ![Vault] = @ - f.y,
                                                              ![f.caller] = @ + f.y],
                      !.released = [released EXCEPT ![f.id] = @ + f.y]],
                   f.x, f.y)

\* the call in progress runs its next statement; a revert restores the state
\* the call started from, a return resets _status to NOT_ENTERED
Step ==
  /\ stack # <<>>
  /\ LET f == Top
         r == IF f.op = "openLoan" THEN openLoanStep(f)
              ELSE IF f.op = "repay" THEN repayStep(f)
              ELSE liquidateStep(f)
         led == IF r.kind = "revert" THEN f.snap ELSE r.led
     IN /\ loans' = led.loans
        /\ loanCounter' = led.loanCounter
        /\ balances' = led.balances
        /\ collateralBal' = led.collateralBal
        /\ debtBal' = led.debtBal
        /\ posted' = led.posted
        /\ released' = led.released
        /\ stack' = IF r.kind = "goto"
                    THEN [stack EXCEPT ![Len(stack)] =
                            [f EXCEPT !.pc = r.pc, !.x = r.x, !.y = r.y]]
                    ELSE SubSeq(stack, 1, Len(stack) - 1)
        /\ entered' = IF r.kind = "goto" THEN entered
                      ELSE IF r.kind = "revert" THEN f.wasEntered
                      ELSE FALSE
        /\ last' = IF r.kind = "goto" THEN last
                   ELSE Call(f.op, f.caller, f.id, f.a, f.b, r.err, r.paid, r.out)
        /\ ncalls' = IF r.kind = "return" THEN ncalls + 1 ELSE ncalls
  /\ UNCHANGED <<tierParams, liquidationThresholdBps, liquidationBonusBps, paused,
                 userScores, feedPrice, now, priceSetAt>>

StepNext ==
  \/ \E u \in Users, x \in OpenLoanInputs : Begin("openLoan", u, loanCounter, x[1], x[2])
  \/ \E u \in Users, i \in LoanIds, a \in RepayInputs : Begin("repay", u, i, a, 0)
  \/ \E u \in Users, i \in LoanIds, a \in MaxRepayInputs : Begin("liquidate", u, i, a, 0)
  \/ \E x \in ReenterInputs : Reenter(x[1], x[2], x[3], x[4], x[5])
  \/ Step
  \/ \E p \in PriceInputs : setPrice(p)
  \/ Tick

StepSpec == Init /\ [][StepNext]_vars

(***************************************************************************)
(* Properties.  A step of a call is recognised by last': every action      *)
(* records its call there.  The quantities of a claim are written out from *)
(* the claim, on the state before the call.                                *)
(***************************************************************************)
\* the price the oracle returns, 18 decimals
OraclePrice == feedPrice * FEED_SCALE

\* the debt of loan id with interest accrued up to now
DebtNow(id) ==
  loans[id].debtAmount
    + (loans[id].debtAmount * loans[id].interestRate * (now - loans[id].lastAccruedAt))
        \div (YEAR * BPS)

\* floor(floor(collateralAmount * price / 1e18) * 1e18 / (currentDebt * 1e12))
HealthNow(id) ==
  (((loans[id].collateralAmount * OraclePrice) \div WAD) * WAD)
     \div (DebtNow(id) * DEBT_SCALE)

\* floor((repay + floor(repay * bonusBps / 10000)) * 1e12 * 1e18 / price)
SeizedFor(repayAmount) ==
  ((repayAmount + (repayAmount * liquidationBonusBps) \div BPS) * DEBT_SCALE * WAD)
     \div OraclePrice

\* maxDebt of the caller's tier for a collateral amount
MaxDebtFor(caller, collateralAmount) ==
  (((collateralAmount * OraclePrice) \div WAD) * tierParams[userScores[caller].tier].ltvBps)
     \div BPS

\* C1: a successful liquidate by L takes the seized collateral out of the vault
\* balance held for the loan's borrower; L's own vault balance is not needed
\* and is not changed.
C1_SeizedFromBorrower ==
  [][(last'.op = "liquidate" /\ last'.ok) =>
       LET b == loans[last'.id].borrower
           L == last'.caller
           seizedCollateral == collateralBal[Vault] - collateralBal'[Vault]
       IN /\ balances'[b] = balances[b] - seizedCollateral
          /\ (L # b => balances'[L] = balances[L])]_vars

\* C2: for every loan, the collateral released for it plus its stored
\* collateralAmount equals the collateral posted at origination.
C2_Conservation ==
  \A i \in LoanIds :
    i < loanCounter => released[i] + loans[i].collateralAmount = posted[i]

\* C3: openLoan by a caller for whom no score was ever committed never
\* succeeds.
C3_NoScoreNoLoan ==
  [][(last'.op = "openLoan" /\ ~HasScore(last'.caller)) => ~last'.ok]_vars

\* C4: openLoan is rejected when desiredDebt*1e12 > maxDebt, so no loan is
\* created above maxDebt, and it is accepted at desiredDebt*1e12 = maxDebt when
\* the amounts are positive, the pool holds desiredDebt and the borrower holds
\* the collateral (the contract not being paused and the oracle answering).
C4_LtvGate ==
  [][last'.op = "openLoan" =>
       LET c == last'.a
           d == last'.b
           u == last'.caller
       IN /\ last'.ok => d * DEBT_SCALE <= MaxDebtFor(u, c)
          /\ (/\ ~paused /\ feedPrice > 0
              /\ c > 0 /\ d > 0
              /\ d * DEBT_SCALE > MaxDebtFor(u, c))
             => (~last'.ok /\ last'.err = "Exceeds LTV limit" /\ loans' = loans)
          /\ (/\ ~paused /\ feedPrice > 0
              /\ c > 0 /\ d > 0
              /\ d * DEBT_SCALE = MaxDebtFor(u, c)
              /\ collateralBal[u] >= c /\ debtBal[Core] >= d)
             => (last'.ok /\ loans'[last'.id].debtAmount = d)]_vars

\* C4 witness: a loan was opened exactly at the boundary.
C4_BoundaryAccepted ==
  /\ last.op = "openLoan" /\ last.ok
  /\ last.b * DEBT_SCALE = MaxDebtFor(last.caller, last.a)

\* C5: liquidate succeeds only if the health factor at the current price, with
\* interest accrued to now, is below 1e18; at 1e18 or above it is rejected and
\* nothing changes.
C5_LiquidateOnlyUnhealthy ==
  [][last'.op = "liquidate" =>
       /\ last'.ok =>
            (loans[last'.id].active /\ feedPrice > 0 /\ HealthNow(last'.id) < WAD)
       /\ (loans[last'.id].active /\ feedPrice > 0 /\ HealthNow(last'.id) >= WAD)
            => (~last'.ok /\ UNCHANGED chain)]_vars

\* C5 witness: a liquidation went through and seized collateral.
C5_Liquidated == last.op = "liquidate" /\ last.ok /\ last.out > 0

\* C6: a repayment of exactly the current debt closes the loan and releases
\* exactly its collateralAmount from custody to the borrower and to nobody else;
\* a smaller repayment leaves the loan active with debtAmount = current debt -
\* repayAmount and releases nothing.
C6_RepayCloses ==
  [][(last'.op = "repay" /\ last'.ok) =>
       LET id == last'.id
           b == loans[id].borrower
           c == loans[id].collateralAmount
       IN IF last'.a = DebtNow(id)
          THEN /\ ~loans'[id].active
               /\ balances' = [balances EXCEPT ![b] = @ - c]
               /\ collateralBal' = [collateralBal EXCEPT ![Vault] = @ - c, ![b] = @ + c]
          ELSE /\ last'.a < DebtNow(id)
               /\ loans'[id].active
               /\ loans'[id].debtAmount = DebtNow(id) - last'.a
               /\ balances' = balances
               /\ collateralBal' = collateralBal]_vars

\* C6 witness: a loan was closed by a full repayment of its debt.
C6_RepaidInFull ==
  /\ last.op = "repay" /\ last.ok
  /\ ~loans[last.id].active /\ last.a > 0 /\ last.out > 0

\* C7: a successful liquidate collects min(maxRepay, accrued debt) from the
\* liquidator and hands out floor((repay + floor(repay*bonusBps/10000)) * 1e12 *
\* 1e18 / price) of collateral, never more than the loan's collateralAmount; a
\* larger seizure fails with the seizure-exceeds-collateral error.
C7_SeizureCapped ==
  [][last'.op = "liquidate" =>
       LET id == last'.id
           L == last'.caller
           repayAmount == IF last'.a < DebtNow(id) THEN last'.a ELSE DebtNow(id)
       IN /\ last'.ok =>
               /\ debtBal[L] - debtBal'[L] = repayAmount
               /\ debtBal'[Core] - debtBal[Core] = repayAmount
               /\ collateralBal'[L] - collateralBal[L] = SeizedFor(repayAmount)
               /\ collateralBal[Vault] - collateralBal'[Vault] = SeizedFor(repayAmount)
               /\ SeizedFor(repayAmount) <= loans[id].collateralAmount
          /\ last'.err = "Seizure exceeds collateral" =>
               SeizedFor(repayAmount) > loans[id].collateralAmount]_vars

\* C7 witness: a liquidation with maxRepay above the debt went through, and
\* the liquidator paid the debt only.
C7_CappedAtDebt ==
  /\ last.op = "liquidate" /\ last.ok
  /\ last.a > last.paid /\ last.out > 0

\* C8: the collateral seized from one loan over its liquidations never
\* exceeds the collateral posted at origination.
C8_SeizedWithinPosted ==
  [][(last'.op = "liquidate" /\ last'.ok) =>
       released'[last'.id] <= posted[last'.id]]_vars

\* C9: a loan created by openLoan that is no longer active has zero stored
\* debt.
C9_ClosedHasNoDebt ==
  \A i \in LoanIds :
    (i < loanCounter /\ ~loans[i].active) => loans[i].debtAmount = 0

\* C10: an active loan has positive debt, so healthFactor never takes its
\* debt-free branch for an active loan.
C10_ActiveHasDebt ==
  \A i \in LoanIds :
    loans[i].active => (loans[i].debtAmount > 0 /\ DebtNow(i) * DEBT_SCALE # 0)

\* C10 witness: a liquidation brought a debt to zero and closed the loan.
C10_LiquidatedToZero ==
  /\ last.op = "liquidate" /\ last.ok
  /\ loans[last.id].debtAmount = 0 /\ ~loans[last.id].active

\* C11: when a loan becomes inactive, by a full repayment or by a liquidation
\* that brings its debt to zero, all collateral posted for it has been released
\* and the custody balance held for its borrower has gone down by what was
\* still held for the loan, back to the level before the loan.
C11_NoStrandedCollateral ==
  [][\A i \in LoanIds :
       (loans[i].active /\ ~loans'[i].active) =>
         /\ released'[i] = posted[i]
         /\ balances'[loans[i].borrower]
              = balances[loans[i].borrower] - (posted[i] - released[i])]_vars

\* C12: an openLoan with a failing precondition (zero collateral or debt, no
\* valid price, debt above the LTV limit, borrower short of the collateral, pool
\* short of desiredDebt) fails, and a failed openLoan leaves loanCounter, the
\* loans, the vault balances and the token balances as they were.
C12_OpenLoanAllOrNothing ==
  [][last'.op = "openLoan" =>
       LET c == last'.a
           d == last'.b
           u == last'.caller
       IN /\ (\/ c = 0 \/ d = 0
              \/ feedPrice <= 0
              \/ d * DEBT_SCALE > MaxDebtFor(u, c)
              \/ collateralBal[u] < c
              \/ debtBal[Core] < d) => ~last'.ok
          /\ ~last'.ok =>
               /\ loanCounter' = loanCounter /\ loans' = loans
               /\ balances' = balances
               /\ collateralBal' = collateralBal /\ debtBal' = debtBal
               /\ UNCHANGED chain]_vars

\* C12 witness: an openLoan of a borrower who holds the collateral failed on
\* the liquidity of the pool, after the step that locks the collateral.
C12_LiquidityShortfall ==
  /\ last.op = "openLoan" /\ last.err = "Insufficient liquidity"
  /\ collateralBal[last.caller] >= last.a
  /\ balances[last.caller] = 0

\* C13: a repay on an inactive loan, by somebody else than the borrower or of
\* more than the accrued debt is rejected; a liquidate on an inactive loan, at a
\* health factor of 1e18 or more or seizing more than the collateral is
\* rejected; a rejected repay or liquidate moves no funds and leaves every
\* field of every loan as it was, debtAmount and lastAccruedAt included.
C13_RejectedLeavesLoan ==
  [][last'.op \in {"repay", "liquidate"} =>
       LET id == last'.id
           u == last'.caller
           repayAmount == IF last'.a < DebtNow(id) THEN last'.a ELSE DebtNow(id)
       IN /\ (/\ last'.op = "repay"
              /\ \/ ~loans[id].active
                 \/ loans[id].borrower # u
                 \/ last'.a > DebtNow(id)) => ~last'.ok
          /\ (/\ last'.op = "liquidate"
              /\ \/ ~loans[id].active
                 \/ (feedPrice > 0 /\ HealthNow(id) >= WAD)
                 \/ (feedPrice > 0 /\ SeizedFor(repayAmount) > loans[id].collateralAmount))
               => ~last'.ok
          /\ ~last'.ok =>
               /\ loans' = loans
               /\ balances' = balances
               /\ collateralBal' = collateralBal
               /\ debtBal' = debtBal]_vars

\* C13 witness: a liquidate was rejected for seizing too much, at a time when
\* the accrual that precedes that check had interest to add to the loan.
C13_RejectedAfterAccrual ==
  /\ last.op = "liquidate" /\ last.err = "Seizure exceeds collateral"
  /\ loans[last.id].lastAccruedAt < now
  /\ DebtNow(last.id) > loans[last.id].debtAmount

\* C14: openLoan, healthFactor and liquidate abort, with no state change, when
\* the feed's answer is non-positive or stale; stale is taken at its weakest,
\* an answer as old as the whole time the model covers.
C14_NoStaleOrBadPrice ==
  [][(/\ last'.op \in {"openLoan", "healthFactor", "liquidate"}
      /\ (feedPrice <= 0 \/ now - priceSetAt >= MaxTime))
       => (~last'.ok /\ UNCHANGED chain)]_vars

\* C15: over accruals at non-decreasing timestamps, with no repayment or
\* liquidation in between, debtAmount and lastAccruedAt never decrease, and an
\* accrual that follows another one at the same timestamp changes neither
\* debtAmount nor lastAccruedAt.
C15_AccrualMonotoneIdempotent ==
  [][/\ loans'[0].debtAmount >= loans[0].debtAmount
     /\ loans'[0].lastAccruedAt >= loans[0].lastAccruedAt
     /\ (last'.op = "accrue" /\ last.op = "accrue") =>
          /\ loans'[0].debtAmount = loans[0].debtAmount
          /\ loans'[0].lastAccruedAt = loans[0].lastAccruedAt]_vars

\* C15 witness: an accrual ran a second time at a timestamp at which an
\* earlier accrual had added interest.
C15_AccruedTwice ==
  /\ last.op = "accrue" /\ last.b = 0
  /\ loans[0].lastAccruedAt = now /\ now > 0
  /\ loans[0].debtAmount > debtBal[loans[0].borrower]

\* C16: one accrual over elapsed seconds adds exactly
\* floor(debtAmount * interestRateBps * elapsed / (365*86400*10000)) to the debt;
\* a 600 bps loan of 350 (35,000,000 in units of 1e5) accrued once after a whole
\* year has debt 371 (37,100,000), more than at origination.
C16_AccrualAmount ==
  [][last'.op = "accrue" =>
       LET d == loans[0].debtAmount
           r == loans[0].interestRate
           elapsed == now - loans[0].lastAccruedAt
       IN /\ loans'[0].debtAmount = d + (d * r * elapsed) \div (YEAR * BPS)
          /\ (d = 350 /\ r = 600 /\ elapsed = YEAR) => loans'[0].debtAmount = 371]_vars

\* C16 witness: the 600 bps loan of 350 was accrued once, a whole year after
\* origination.
C16_AfterOneYear ==
  /\ last.op = "accrue" /\ last.a = 350 /\ last.b = YEAR /\ last.out = 371
  /\ loans[0].interestRate = 600 /\ loans[0].createdAt = 0

\* C17: for an active loan healthFactor returns
\* floor(floor(collateralAmount*price/1e18) * 1e18 / (currentDebt*1e12)); when
\* the collateral value equals the debt value it returns exactly 1e18 and every
\* liquidate is rejected; when the collateral value is one unit lower it returns
\* less than 1e18 and no liquidate is rejected for the health factor.
C17_HealthFactorBoundary ==
  (last.op = "healthFactor" /\ last.ok) =>
    LET id == last.id
        collateralValue == (loans[id].collateralAmount * OraclePrice) \div WAD
        debtValue == DebtNow(id) * DEBT_SCALE
    IN /\ loans[id].active
       /\ last.out = (collateralValue * WAD) \div debtValue
       /\ collateralValue = debtValue =>
            /\ last.out = WAD
            /\ \A u \in Users, a \in MaxRepayInputs : liquidateErr(u, id, a) # ""
       /\ collateralValue = debtValue - 1 =>
            /\ last.out < WAD
            /\ \A u \in Users, a \in MaxRepayInputs :
                 liquidateErr(u, id, a) \notin {"Health factor >= 1", "Loan not active"}

\* C17 witness: healthFactor was read at the price at which the collateral
\* value equals the debt value.
C17_AtTheBoundary ==
  /\ last.op = "healthFactor" /\ last.ok /\ last.out = WAD
  /\ (loans[last.id].collateralAmount * OraclePrice) \div WAD
       = DebtNow(last.id) * DEBT_SCALE

\* C18: the interest rate of a loan is the aprBps of its borrower's tier when
\* openLoan succeeded, and no step changes borrower, interestRate or createdAt
\* of a loan that exists.
C18_WriteOnceFields ==
  [][/\ (last'.op = "openLoan" /\ last'.ok) =>
          /\ loans'[last'.id].interestRate
               = tierParams[userScores[last'.caller].tier].aprBps
          /\ loans'[last'.id].borrower = last'.caller
          /\ loans'[last'.id].createdAt = now
     /\ \A i \in LoanIds :
          i < loanCounter =>
            /\ loans'[i].borrower = loans[i].borrower
            /\ loans'[i].interestRate = loans[i].interestRate
            /\ loans'[i].createdAt = loans[i].createdAt]_vars

\* C18 witness: the parameters of a borrower's tier were changed after the
\* loan was opened, and the loan kept the rate of its origination.
C18_RateKeptAfterTierChange ==
  /\ last.op = "setTierParams" /\ last.ok
  /\ \E i \in LoanIds :
       /\ i < loanCounter /\ loans[i].active
       /\ userScores[loans[i].borrower].tier = last.id
       /\ loans[i].interestRate # tierParams[last.id].aprBps

\* C19: ids are given out in sequence from 0, one per successful openLoan:
\* a successful openLoan creates the loan of id loanCounter in a slot never used
\* before, leaves the other loans alone and adds one to loanCounter; no other
\* step, a failed openLoan included, changes loanCounter; the ids below
\* loanCounter are exactly those of the loans that exist.
C19_SequentialIds ==
  [][/\ (last'.op = "openLoan" /\ last'.ok) =>
          /\ last'.id = loanCounter
          /\ loans[last'.id] = ZeroLoan
          /\ loans'[last'.id].borrower = last'.caller
          /\ \A j \in LoanIds \ {last'.id} : loans'[j] = loans[j]
          /\ loanCounter' = loanCounter + 1
     /\ ~(last'.op = "openLoan" /\ last'.ok) => loanCounter' = loanCounter
     /\ \A i \in LoanIds : (i < loanCounter') <=> (loans'[i].borrower # ZeroAddr)
     /\ \A i \in LoanIds : (i < loanCounter) => loans'[i].borrower # ZeroAddr]_vars

\* C19 witness: a second loan was opened and got id 1.
C19_SecondLoan ==
  /\ last.op = "openLoan" /\ last.ok /\ last.id = 1 /\ loanCounter = 2
  /\ loans[0].borrower # ZeroAddr /\ loans[1].borrower # ZeroAddr

\* C20 as stated: a loan that is no longer active is never changed again, by
\* any step, and every repay and liquidate on it fails with the
\* loan-not-active error.
C20_ClosedIsTerminal ==
  [][\A i \in LoanIds :
       (i < loanCounter /\ ~loans[i].active) =>
         /\ loans'[i] = loans[i]
         /\ (last'.op \in {"repay", "liquidate"} /\ last'.id = i) =>
              (~last'.ok /\ last'.err = "Loan not active")]_vars

\* C20 amended: a loan that is no longer active is never changed again, by
\* any step, and every repay and liquidate on it fails: with the
\* loan-not-active error while the contract is not paused, with the pause error
\* while it is paused.
C20_ClosedIsTerminalOrPaused ==
  [][\A i \in LoanIds :
       (i < loanCounter /\ ~loans[i].active) =>
         /\ loans'[i] = loans[i]
         /\ (last'.op \in {"repay", "liquidate"} /\ last'.id = i) =>
              /\ ~last'.ok
              /\ last'.err = IF paused THEN "EnforcedPause" ELSE "Loan not active"
         /\ (last'.op = "healthFactor" /\ last'.id = i) =>
              (~last'.ok /\ last'.err = "Loan not active")]_vars

\* C20 witness: a repay on a loan closed earlier was rejected as not active.
C20_RepayOnClosed ==
  /\ last.op = "repay" /\ last.err = "Loan not active"
  /\ last.id < loanCounter /\ ~loans[last.id].active
  /\ loans[last.id].borrower = last.caller

\* C21: setTierParams writes the tier table exactly when the owner calls it
\* with a tier in {0,1,2} and ltvBps <= 10000; any other call is rejected and
\* leaves the table as it was, no other call writes the table, and every stored
\* ltvBps is at most 10000.
C21_TierParamsValidated ==
  [][/\ last'.op = "setTierParams" =>
          LET accepted == /\ last'.caller = Owner
                          /\ last'.id \in {0, 1, 2}
                          /\ last'.a <= 10000
          IN /\ last'.ok <=> accepted
             /\ accepted => tierParams' = [tierParams EXCEPT ![last'.id] =
                                             [ltvBps |-> last'.a, aprBps |-> last'.b]]
             /\ ~accepted => tierParams' = tierParams
     /\ last'.op # "setTierParams" => tierParams' = tierParams
     /\ \A t \in 0 .. 2 : tierParams'[t].ltvBps <= 10000]_vars

\* C21 witness: the owner's setTierParams with ltvBps above 10000 was rejected.
C21_LtvAboveLimitRejected ==
  /\ last.op = "setTierParams" /\ last.caller = Owner
  /\ last.a > 10000 /\ last.err = "LTV > 100%"

\* C22: while the contract is paused every openLoan, repay and liquidate fails
\* and changes no loan, vault balance or token balance; pause, unpause,
\* setTierParams and setLiquidationParams by anybody but the owner are rejected,
\* and the pause flag, the tier table and the liquidation parameters change
\* only in a call by the owner.
C22_PausedAndOwnerOnly ==
  [][/\ (paused /\ last'.op \in {"openLoan", "repay", "liquidate"}) =>
          /\ ~last'.ok
          /\ loans' = loans /\ loanCounter' = loanCounter
          /\ balances' = balances
          /\ collateralBal' = collateralBal /\ debtBal' = debtBal
     /\ (/\ last'.op \in {"pause", "unpause", "setTierParams", "setLiquidationParams"}
         /\ last'.caller # Owner) => ~last'.ok
     /\ (\/ paused' # paused
         \/ tierParams' # tierParams
         \/ liquidationThresholdBps' # liquidationThresholdBps
         \/ liquidationBonusBps' # liquidationBonusBps) => last'.caller = Owner]_vars

\* C22 witness: the borrower's repay of an active loan was rejected because
\* the contract is paused.
C22_RepayWhilePaused ==
  /\ paused /\ last.op = "repay" /\ last.err = "EnforcedPause"
  /\ loans[last.id].active /\ loans[last.id].borrower = last.caller
  /\ debtBal[last.caller] >= last.a /\ last.a <= loans[last.id].debtAmount

\* C24: with no repayment in between, accruing in several steps never leaves
\* less debt than one accrual over the whole time: after any accruals the
\* stored debt is at least the debt disbursed at origination (which the
\* borrower still holds) plus the interest of a single accrual from origination
\* to lastAccruedAt.
C24_SplitAccrualNoLess ==
  LET d == debtBal[loans[0].borrower]
  IN loans[0].debtAmount
       >= d + (d * loans[0].interestRate * (loans[0].lastAccruedAt - loans[0].createdAt))
                \div (YEAR * BPS)

\* C25: at every timestamp the debt healthFactor computes equals the debt
\* _accrueInterest stores at that timestamp: an accrual stores the debt the
\* preview gave, healthFactor returns the health factor of that debt, and a
\* healthFactor call changes no stored field.
C25_PreviewEqualsAccrual ==
  [][/\ \A t \in now .. MaxTime :
          calculateDebtWithInterest(loans[0], t) = accrueInterest(loans[0], t).debtAmount
     /\ last'.op = "accrue" =>
          loans'[0].debtAmount = calculateDebtWithInterest(loans[0], now)
     /\ last'.op = "healthFactor" =>
          /\ UNCHANGED chain
          /\ last'.ok =>
               last'.out = (((loans[0].collateralAmount * OraclePrice) \div WAD) * WAD)
                              \div (accrueInterest(loans[0], now).debtAmount * DEBT_SCALE)]_vars

\* C25 witness: healthFactor was read while interest was due that no accrual
\* had stored yet.
C25_PreviewWithInterestDue ==
  /\ last.op = "healthFactor" /\ last.ok
  /\ loans[0].lastAccruedAt < now
  /\ DebtNow(0) > loans[0].debtAmount

\* C27: for every loan, no step decreases lastAccruedAt, and lastAccruedAt is
\* never later than the current time and never earlier than createdAt.
C27_LastAccruedAtMonotone ==
  [][/\ \A i \in LoanIds :
          i < loanCounter => loans'[i].lastAccruedAt >= loans[i].lastAccruedAt
     /\ \A i \in LoanIds :
          i < loanCounter' =>
            /\ loans'[i].lastAccruedAt <= now'
            /\ loans'[i].lastAccruedAt >= loans'[i].createdAt]_vars

\* C27 witness: a repay or liquidate moved lastAccruedAt of a loan forward
\* from its createdAt to the current time.
C27_AccruedLater ==
  /\ last.op \in {"repay", "liquidate"} /\ last.ok
  /\ loans[last.id].lastAccruedAt = now
  /\ loans[last.id].lastAccruedAt > loans[last.id].createdAt

RECURSIVE ActiveCollateral(_, _)
\* the sum of collateralAmount over the active loans of a borrower with id < n
ActiveCollateral(u, n) ==
  IF n = 0 THEN 0
  ELSE ActiveCollateral(u, n - 1)
         + (IF loans[n - 1].active /\ loans[n - 1].borrower = u
            THEN loans[n - 1].collateralAmount ELSE 0)

\* C29: for every borrower the vault balance recorded for the borrower is at
\* least the sum of collateralAmount over the borrower's active loans.
C29_VaultCoversActiveLoans ==
  \A u \in Users : balances[u] >= ActiveCollateral(u, loanCounter)

\* C30: right after a successful openLoan, at the same price and timestamp,
\* the health factor of the new loan is at least 1e18 and every liquidate on
\* it is rejected for its health factor.
C30_FreshLoanNotLiquidatable ==
  (last.op = "openLoan" /\ last.ok) =>
    /\ HealthNow(last.id) >= WAD
    /\ \A u \in Users, a \in MaxRepayInputs :
         liquidateErr(u, last.id, a) = "Health factor >= 1"

\* C30 witness: a loan was opened at the limit of a tier whose LTV had been
\* set to 100%, with a health factor of exactly 1e18.
C30_OpenedAtFullLtv ==
  /\ last.op = "openLoan" /\ last.ok
  /\ tierParams[userScores[last.caller].tier].ltvBps = 10000
  /\ HealthNow(last.id) = WAD

\* C23: openLoan, repay and liquidate never overlap: at most one of them is in
\* progress, the guard is set exactly while one is, a call made back into
\* LendingCore while one is in progress is rejected and changes nothing, and a
\* call that was in progress ends with the outcome it has when it runs as one
\* transaction.
C23_Serialized ==
  [][/\ Len(stack') <= 1
     /\ entered' <=> (stack' # <<>>)
     /\ (stack # <<>> /\ stack' = stack /\ last' # last) =>
          (last'.err = "ReentrancyGuardReentrantCall" /\ UNCHANGED chain)
     /\ (stack # <<>> /\ stack' = <<>>) => last'.err = stack[1].expect]_vars

\* C23 witness: while a call was in a token or vault call, a second call was
\* made into LendingCore and was rejected by the guard.
C23_ReentryRejected ==
  /\ Len(stack) = 1 /\ Top.pc \in CollaboratorSteps
  /\ last.err = "ReentrancyGuardReentrantCall"

\* C26: in openLoan, repay and liquidate no field of a loan is written before
\* the last collaborator call of the operation: whenever a call is about to
\* transfer tokens or to deposit into or withdraw from the vault, the loans and
\* loanCounter are as they were when the call started.
C26_CommitAfterCollaborators ==
  (stack # <<>> /\ Top.pc \in CollaboratorSteps) =>
    (loans = Top.snap.loans /\ loanCounter = Top.snap.loanCounter)
====
